---- MODULE Spec2Model ----
(***************************************************************************)
(* Model of galata_ai.py: download_stream_manifest (one job: embed page    *)
(* fetch, M3U8 URL search, M3U8 fetch, relative-URL completion, file       *)
(* write) and process_all_streams (the batch loop over streams_config.json *)
(* with its statistics and the delay between requests).                    *)
(*                                                                         *)
(* Text is a sequence of characters.  The characters are                   *)
(*   "\n"  line feed          " "  a space           "#"  "/"  ":"         *)
(*   "h"   the letters http   "s"  the letter s                            *)
(* so <<"h",":","/","/">> is the text http:// and <<"h","s",":","/","/">>  *)
(* is https://.  The words "host", "path", "live" and "index.m3u8" are     *)
(* runs of letters that occur in the URLs the embed pages carry.           *)
(***************************************************************************)
EXTENDS Integers, Sequences, FiniteSets, TLC

VARIABLES
    pc,               \* position of process_all_streams
    config,           \* what streams_config.json holds when the run starts
    streams,          \* the loaded list
    idx,              \* enumerate(streams, 1) index of the current stream
    successful,
    failed,
    failed_streams,
    summary,          \* the value process_all_streams returned
    jpc,              \* position of download_stream_manifest
    args,             \* its arguments
    response,         \* embed page response
    m3u8_url,
    m3u8_response,
    processed_content,
    result,           \* the dict it returned
    dirs,             \* directories that exist
    files,            \* path -> content of the files that exist
    exc,              \* the exception raised inside the try block, if any
    dirs_at_call,     \* dirs when download_stream_manifest was called
    files_at_call,    \* files when download_stream_manifest was called
    returns,          \* the dicts download_stream_manifest returned, in order
    log               \* what happened so far, in order

vars == <<pc, config, streams, idx, successful, failed, failed_streams, summary,
          jpc, args, response, m3u8_url, m3u8_response, processed_content,
          result, dirs, files, exc, dirs_at_call, files_at_call, returns, log>>

batchVars == <<pc, config, streams, idx, successful, failed, failed_streams, summary>>

-----------------------------------------------------------------------------
(* Bounds *)

MaxJobs == 3       \* longest streams list
MaxTextLen == 5    \* longest M3U8 body of the single-job specification

-----------------------------------------------------------------------------
(* str operations *)

Chars == {"\n", " ", "#", "/", ":", "h", "s"}

Letters == {"h", "s", "host", "path", "live", "index.m3u8"}

\* string.ascii_letters + digits + "+-." : every letter run is made of them
scheme_chars == Letters

Take(s, n) == SubSeq(s, 1, IF n < Len(s) THEN n ELSE Len(s))

Drop(s, n) == SubSeq(s, (IF n < Len(s) THEN n ELSE Len(s)) + 1, Len(s))

startswith(s, prefix) == Take(s, Len(prefix)) = prefix

\* str.find + 1: the first position of c in s, 0 when there is none
Find(s, c) ==
    IF \E i \in 1..Len(s) : s[i] = c
    THEN CHOOSE i \in 1..Len(s) : s[i] = c /\ \A j \in 1..(i - 1) : s[j] # c
    ELSE 0

RECURSIVE split(_, _)
split(s, sep) ==
    LET i == Find(s, sep)
    IN  IF i = 0 THEN <<s>> ELSE <<Take(s, i - 1)>> \o split(Drop(s, i), sep)

RECURSIVE join(_, _)
join(sep, parts) ==
    IF Len(parts) = 0 THEN <<>>
    ELSE IF Len(parts) = 1 THEN parts[1]
    ELSE parts[1] \o <<sep>> \o join(sep, Tail(parts))

RECURSIVE lstrip(_)
lstrip(s) == IF s # <<>> /\ s[1] = " " THEN lstrip(Tail(s)) ELSE s

RECURSIVE rstrip(_)
rstrip(s) == IF s # <<>> /\ s[Len(s)] = " " THEN rstrip(Take(s, Len(s) - 1)) ELSE s

strip(s) == rstrip(lstrip(s))

-----------------------------------------------------------------------------
(* urllib.parse.urljoin, for URLs without "?", ";" and "." segments *)

http == <<"h">>
https == <<"h", "s">>
shttp == <<"s", "h">>

uses_relative == {<<>>, http, https, shttp}
uses_netloc == {<<>>, http, https, shttp}

urlsplit(url0, scheme0) ==
    LET url1 == lstrip(url0)
        i == Find(url1, ":")
        hasScheme == /\ i > 1
                     /\ url1[1] \in Letters
                     /\ \A j \in 1..(i - 1) : url1[j] \in scheme_chars
        scheme == IF hasScheme THEN Take(url1, i - 1) ELSE scheme0
        url2 == IF hasScheme THEN Drop(url1, i) ELSE url1
        hasNetloc == Take(url2, 2) = <<"/", "/">>
        delims == {k \in 3..Len(url2) : url2[k] \in {"/", "#"}}
        delim == IF delims = {} THEN Len(url2) + 1
                 ELSE CHOOSE k \in delims : \A m \in delims : k <= m
        netloc == IF hasNetloc THEN SubSeq(url2, 3, delim - 1) ELSE <<>>
        url3 == IF hasNetloc THEN Drop(url2, delim - 1) ELSE url2
        f == Find(url3, "#")
    IN  [scheme |-> scheme,
         netloc |-> netloc,
         path |-> IF f > 0 THEN Take(url3, f - 1) ELSE url3,
         fragment |-> IF f > 0 THEN Drop(url3, f) ELSE <<>>]

urlunsplit(scheme, netloc, path, fragment) ==
    LET u1 == IF \/ netloc # <<>>
                 \/ (scheme # <<>> /\ scheme \in uses_netloc /\ Take(path, 2) # <<"/", "/">>)
              THEN <<"/", "/">> \o netloc \o
                   (IF path # <<>> /\ path[1] # "/" THEN <<"/">> \o path ELSE path)
              ELSE path
        u2 == IF scheme # <<>> THEN scheme \o <<":">> \o u1 ELSE u1
    IN  IF fragment # <<>> THEN u2 \o <<"#">> \o fragment ELSE u2

\* segments[1:-1] = filter(None, segments[1:-1])
FilterMiddle(segments) ==
    IF Len(segments) <= 2 THEN segments
    ELSE <<segments[1]>>
         \o SelectSeq(SubSeq(segments, 2, Len(segments) - 1), LAMBDA seg : seg # <<>>)
         \o <<segments[Len(segments)]>>

urljoin(base, url) ==
    IF base = <<>> THEN url
    ELSE IF url = <<>> THEN base
    ELSE
      LET b == urlsplit(base, <<>>)
          r == urlsplit(url, b.scheme)
          bsplit == split(b.path, "/")
          base_parts == IF bsplit[Len(bsplit)] # <<>>
                        THEN Take(bsplit, Len(bsplit) - 1) ELSE bsplit
          segments == IF Take(r.path, 1) = <<"/">>
                      THEN split(r.path, "/")
                      ELSE FilterMiddle(base_parts \o split(r.path, "/"))
          joined == join("/", segments)
      IN  IF r.scheme # b.scheme \/ r.scheme \notin uses_relative THEN url
          ELSE IF r.scheme \in uses_netloc /\ r.netloc # <<>>
               THEN urlunsplit(r.scheme, r.netloc, r.path, r.fragment)
          ELSE IF r.path = <<>>
               THEN urlunsplit(r.scheme, b.netloc, b.path, r.fragment)
          ELSE urlunsplit(r.scheme, b.netloc,
                          IF joined = <<>> THEN <<"/">> ELSE joined,
                          r.fragment)

-----------------------------------------------------------------------------
(* Values *)

\* Optional values: None, or Some(v).  "not x" holds of None and of the empty str.
None == <<>>
Some(v) == <<v>>
Falsy(x) == x = None \/ x = Some(<<>>)

HTTP_OK == 200
StatusCodes == {200, 404}

\* f'{status_code}'
Str(code) == CASE code = 200 -> "200" [] code = 404 -> "404"

Fields == {"country", "subdivision", "folder_name", "stream_id", "name", "referer"}

Stream1 ==
    [country |-> "TR", subdivision |-> "53", folder_name |-> "rize",
     stream_id |-> "cam1", name |-> "Rize", referer |-> "https://rize.example/"]

Stream2 ==
    [country |-> "TR", subdivision |-> "34", folder_name |-> "galata",
     stream_id |-> "cam2", name |-> "Galata", referer |-> "https://galata.example/"]

\* an entry of the config file without its "referer"
Stream3 ==
    [country |-> "TR", subdivision |-> "34", folder_name |-> "galata",
     stream_id |-> "cam3", name |-> "Kule"]

StreamEntries == {Stream1, Stream2, Stream3}

RECURSIVE ListsUpTo(_, _)
ListsUpTo(S, n) ==
    IF n = 0 THEN {<<>>}
    ELSE LET shorter == ListsUpTo(S, n - 1)
         IN  shorter \cup {Append(l, x) : l \in shorter, x \in S}

\* streams_config.json: absent, not JSON, a JSON number, or a JSON list
Configs ==
    {[kind |-> "missing"], [kind |-> "invalid"], [kind |-> "number"]}
    \cup {[kind |-> "list", value |-> l] : l \in ListsUpTo(StreamEntries, MaxJobs)}

AbsoluteUrl == <<"h", "s", ":", "/", "/", "host", "/", "path", "/", "index.m3u8">>
OtherUrl == <<"h", ":", "/", "/", "host", "/", "index.m3u8">>
RelativeUrl == <<"/", "live", "/", "index.m3u8">>

\* An embed page, as what re.search captures in it for each of the four patterns
Pages ==
    { <<None, None, None, None>>,
      <<Some(AbsoluteUrl), None, Some(OtherUrl), Some(OtherUrl)>>,
      <<None, Some(RelativeUrl), None, None>>,
      <<None, None, None, Some(OtherUrl)>> }

\* the M3U8 body the upstream serves during a batch
ManifestSamples ==
    { <<"#", " ", "\n", "s", "\n", " ", "/", "s", " ", "\n", "h", ":", "/", "/", "s", "\n">> }

Texts(n) == ListsUpTo(Chars, n)

-----------------------------------------------------------------------------
(* download_stream_manifest *)

join_path(country, subdivision, folder_name) == <<country, subdivision, folder_name>>

output_path(folder_path, stream_id) == [dir |-> folder_path, file |-> <<stream_id, ".m3u8">>]

\* os.mkdir in place of os.makedirs: only the last level
Prefixes_LeafOnly(path, k) == IF k = 0 THEN {} ELSE {SubSeq(path, 1, k)}

Prefixes(path, k) == {SubSeq(path, 1, n) : n \in 1..k}

\* the message without the status code
StatusFailure_NoCode(what, code) ==
    [success |-> FALSE, message |-> <<"Failed to fetch ", what>>, file_path |-> None]

StatusFailure(what, code) ==
    [success |-> FALSE,
     message |-> <<"Failed to fetch ", what, ". HTTP Status: ", Str(code)>>,
     file_path |-> None]

NotFoundFailure ==
    [success |-> FALSE, message |-> <<"M3U8 URL not found in embed page">>, file_path |-> None]

\* the except clause without str(e)
CatchException_NoDescription(e) ==
    [success |-> FALSE, message |-> <<"Error: ">>, file_path |-> None]

\* except Exception as e
CatchException(e) ==
    [success |-> FALSE, message |-> <<"Error: ", e>>, file_path |-> None]

\* the success dict without its 'm3u8_url' key
SuccessResult_NoUrl(output_file, url) ==
    [success |-> TRUE,
     message |-> <<"M3U8 file successfully downloaded and processed">>,
     file_path |-> Some(output_file)]

SuccessResult(output_file, url) ==
    [success |-> TRUE,
     message |-> <<"M3U8 file successfully downloaded and processed">>,
     file_path |-> Some(output_file),
     m3u8_url |-> url]

\* the for loop over m3u8_patterns with its break
RECURSIVE FirstMatch(_)
FirstMatch(matches) ==
    IF matches = <<>> THEN None
    ELSE IF matches[1] # None THEN matches[1]
    ELSE FirstMatch(Tail(matches))

\* requests raises MissingSchema / InvalidURL on a URL without scheme or host
CanRequest(url) ==
    LET u == urlsplit(url, <<>>) IN u.scheme \in {http, https} /\ u.netloc # <<>>

\* the else branch appends line in place of stripped_line
ProcessLine_KeepsRaw(base, line) ==
    LET stripped_line == strip(line)
    IN  IF stripped_line # <<>> /\ ~startswith(stripped_line, <<"#">>)
        THEN IF /\ ~startswith(stripped_line, <<"h", ":", "/", "/">>)
                /\ ~startswith(stripped_line, <<"h", "s", ":", "/", "/">>)
             THEN urljoin(base, stripped_line)
             ELSE stripped_line
        ELSE line

ProcessLine(base, line) ==
    LET stripped_line == strip(line)
    IN  IF stripped_line # <<>> /\ ~startswith(stripped_line, <<"#">>)
        THEN IF /\ ~startswith(stripped_line, <<"h", ":", "/", "/">>)
                /\ ~startswith(stripped_line, <<"h", "s", ":", "/", "/">>)
             THEN urljoin(base, stripped_line)
             ELSE stripped_line
        ELSE stripped_line

ProcessContent(m3u8_content, base) ==
    LET lines == split(m3u8_content, "\n")
    IN  join("\n", [i \in 1..Len(lines) |-> ProcessLine(base, lines[i])])

\* open(output_file, 'x'): an existing file is left as it is
WriteTo_KeepsExisting(fs, path, content) ==
    [p \in DOMAIN fs \cup {path} |-> IF p \in DOMAIN fs THEN fs[p] ELSE content]

WriteTo(fs, path, content) ==
    [p \in DOMAIN fs \cup {path} |-> IF p = path THEN content ELSE fs[p]]

Return(r) ==
    /\ jpc' = "returned"
    /\ result' = r
    /\ returns' = Append(returns, r)

\* an exception inside the try block reaches the except clause
Raise(e) ==
    /\ exc' = Some(e)
    /\ Return(CatchException(e))

\* the step neither returns nor raises
Continue(next) ==
    /\ jpc' = next
    /\ UNCHANGED <<result, returns, exc>>

folder_path == join_path(args.country, args.subdivision, args.folder_name)

Makedirs ==
    /\ jpc = "makedirs"
    /\ \/ /\ dirs' = dirs \cup Prefixes(folder_path, Len(folder_path))
          /\ Continue("embed_get")
       \/ \E k \in 0..(Len(folder_path) - 1) :
             /\ SubSeq(folder_path, 1, k + 1) \notin dirs
             /\ dirs' = dirs \cup Prefixes(folder_path, k)
             /\ Raise("[Errno 13] Permission denied")
    /\ log' = Append(log, <<"makedirs", idx>>)
    /\ UNCHANGED <<batchVars, args, response, m3u8_url, m3u8_response,
                   processed_content, files, dirs_at_call, files_at_call>>

EmbedGet ==
    /\ jpc = "embed_get"
    /\ \/ /\ Raise("Read timed out")
          /\ UNCHANGED response
       \/ \E code \in StatusCodes, page \in Pages :
             /\ (code # HTTP_OK => page = <<None, None, None, None>>)
             /\ response' = Some([status_code |-> code, text |-> page])
             /\ IF code # HTTP_OK
                THEN Return(StatusFailure("embed page", code)) /\ UNCHANGED exc
                ELSE Continue("search")
    /\ log' = Append(log, <<"embed_get", idx>>)
    /\ UNCHANGED <<batchVars, args, m3u8_url, m3u8_response, processed_content,
                   dirs, files, dirs_at_call, files_at_call>>

SearchUrl ==
    /\ jpc = "search"
    /\ m3u8_url' = FirstMatch(response[1].text)
    /\ IF Falsy(m3u8_url')
       THEN Return(NotFoundFailure) /\ UNCHANGED exc
       ELSE Continue("m3u8_get")
    /\ UNCHANGED <<batchVars, args, response, m3u8_response, processed_content,
                   dirs, files, dirs_at_call, files_at_call, log>>

M3u8Get(Bodies) ==
    /\ jpc = "m3u8_get"
    /\ IF ~CanRequest(m3u8_url[1])
       THEN /\ Raise("Invalid URL: No scheme supplied")
            /\ UNCHANGED <<m3u8_response, log>>
       ELSE /\ \/ /\ Raise("Connection aborted")
                  /\ UNCHANGED m3u8_response
               \/ \E code \in StatusCodes, body \in Bodies :
                     /\ (code # HTTP_OK => body = <<>>)
                     /\ m3u8_response' = Some([status_code |-> code, text |-> body])
                     /\ IF code # HTTP_OK
                        THEN Return(StatusFailure("M3U8 file", code)) /\ UNCHANGED exc
                        ELSE Continue("process")
            /\ log' = Append(log, <<"m3u8_get", idx>>)
    /\ UNCHANGED <<batchVars, args, response, m3u8_url, processed_content, dirs, files,
                   dirs_at_call, files_at_call>>

Process ==
    /\ jpc = "process"
    /\ processed_content' = Some(ProcessContent(m3u8_response[1].text, m3u8_url[1]))
    /\ Continue("write")
    /\ UNCHANGED <<batchVars, args, response, m3u8_url, m3u8_response,
                   dirs, files, dirs_at_call, files_at_call, log>>

WriteFile ==
    LET output_file == output_path(folder_path, args.stream_id)
    IN  /\ jpc = "write"
        /\ \/ /\ files' = WriteTo(files, output_file, processed_content[1])
              /\ Return(SuccessResult(output_file, m3u8_url[1]))
              /\ UNCHANGED exc
              /\ log' = Append(log, <<"write", idx>>)
           \/ \* open() fails: nothing is touched
              /\ Raise("[Errno 13] Permission denied")
              /\ UNCHANGED <<files, log>>
           \/ \* write() fails after open() has truncated the file
              /\ files' = WriteTo(files, output_file, <<>>)
              /\ Raise("[Errno 28] No space left on device")
              /\ log' = Append(log, <<"truncate", idx>>)
        /\ UNCHANGED <<batchVars, args, response, m3u8_url, m3u8_response,
                       processed_content, dirs, dirs_at_call, files_at_call>>

-----------------------------------------------------------------------------
(* process_all_streams *)

location(stream) == <<stream.country, "/", stream.subdivision, "/", stream.folder_name>>

FailedEntry(stream, r) ==
    [name |-> stream.name,
     location |-> location(stream),
     stream_id |-> stream.stream_id,
     error |-> r.message]

\* 'total' counts the successes only
MakeSummary_Miscount ==
    [total |-> successful,
     successful |-> successful,
     failed |-> failed,
     failed_streams |-> failed_streams]

MakeSummary ==
    [total |-> Len(streams),
     successful |-> successful,
     failed |-> failed,
     failed_streams |-> failed_streams]

\* open + json.load + len(streams)
LoadConfig ==
    /\ pc = "load"
    /\ IF config.kind \in {"missing", "invalid"}
       THEN /\ pc' = "returned"
            /\ log' = Append(log, <<"error", 0>>)
            /\ UNCHANGED streams
       ELSE IF config.kind = "number"
       THEN /\ pc' = "raised"           \* TypeError: object of type 'int' has no len()
            /\ UNCHANGED <<streams, log>>
       ELSE /\ streams' = config.value
            /\ pc' = "for"
            /\ UNCHANGED log
    /\ UNCHANGED <<config, idx, successful, failed, failed_streams, summary,
                   jpc, args, response, m3u8_url, m3u8_response, processed_content,
                   result, dirs, files, exc, dirs_at_call, files_at_call, returns>>

\* the head of the for loop, the six stream[...] reads and the call
NextStream ==
    /\ pc = "for"
    /\ idx < Len(streams)
    /\ idx' = idx + 1
    /\ LET stream == streams[idx + 1]
       IN  IF Fields \subseteq DOMAIN stream
           THEN /\ pc' = "call"
                /\ jpc' = "makedirs"
                /\ args' = [stream_id |-> stream.stream_id,
                            referer |-> stream.referer,
                            country |-> stream.country,
                            subdivision |-> stream.subdivision,
                            folder_name |-> stream.folder_name]
                /\ response' = None
                /\ m3u8_url' = None
                /\ m3u8_response' = None
                /\ processed_content' = None
                /\ exc' = None
                /\ dirs_at_call' = dirs
                /\ files_at_call' = files
                /\ log' = Append(log, <<"start", idx + 1>>)
           ELSE /\ pc' = "raised"       \* KeyError
                /\ UNCHANGED <<jpc, args, response, m3u8_url, m3u8_response,
                               processed_content, exc, dirs_at_call, files_at_call, log>>
    /\ UNCHANGED <<config, streams, successful, failed, failed_streams, summary,
                   result, dirs, files, returns>>

\* a failed job ends the loop
Tally_StopsAtFailure ==
    /\ pc = "call"
    /\ jpc = "returned"
    /\ IF result.success
       THEN /\ successful' = successful + 1
            /\ UNCHANGED <<failed, failed_streams>>
       ELSE /\ failed' = failed + 1
            /\ failed_streams' = Append(failed_streams, FailedEntry(streams[idx], result))
            /\ UNCHANGED successful
    /\ log' = Append(log, <<IF result.success THEN "ok" ELSE "fail", idx>>)
    /\ pc' = IF ~result.success THEN "returned"
             ELSE IF idx < Len(streams) THEN "sleep" ELSE "for"
    /\ jpc' = "idle"
    /\ UNCHANGED <<config, streams, idx, summary, args, response, m3u8_url,
                   m3u8_response, processed_content, result, dirs, files, exc,
                   dirs_at_call, files_at_call, returns>>

\* idx <= len(streams) in place of idx < len(streams)
Tally_SleepsAfterLast ==
    /\ pc = "call"
    /\ jpc = "returned"
    /\ IF result.success
       THEN /\ successful' = successful + 1
            /\ UNCHANGED <<failed, failed_streams>>
       ELSE /\ failed' = failed + 1
            /\ failed_streams' = Append(failed_streams, FailedEntry(streams[idx], result))
            /\ UNCHANGED successful
    /\ log' = Append(log, <<IF result.success THEN "ok" ELSE "fail", idx>>)
    /\ pc' = IF idx <= Len(streams) THEN "sleep" ELSE "for"
    /\ jpc' = "idle"
    /\ UNCHANGED <<config, streams, idx, summary, args, response, m3u8_url,
                   m3u8_response, processed_content, result, dirs, files, exc,
                   dirs_at_call, files_at_call, returns>>

\* the statistics after the call, and the choice to sleep
Tally ==
    /\ pc = "call"
    /\ jpc = "returned"
    /\ IF result.success
       THEN /\ successful' = successful + 1
            /\ UNCHANGED <<failed, failed_streams>>
       ELSE /\ failed' = failed + 1
            /\ failed_streams' = Append(failed_streams, FailedEntry(streams[idx], result))
            /\ UNCHANGED successful
    /\ log' = Append(log, <<IF result.success THEN "ok" ELSE "fail", idx>>)
    /\ pc' = IF idx < Len(streams) THEN "sleep" ELSE "for"
    /\ jpc' = "idle"
    /\ UNCHANGED <<config, streams, idx, summary, args, response, m3u8_url,
                   m3u8_response, processed_content, result, dirs, files, exc,
                   dirs_at_call, files_at_call, returns>>

Sleep ==
    /\ pc = "sleep"
    /\ pc' = "for"
    /\ log' = Append(log, <<"sleep", idx>>)
    /\ UNCHANGED <<config, streams, idx, successful, failed, failed_streams, summary,
                   jpc, args, response, m3u8_url, m3u8_response, processed_content,
                   result, dirs, files, exc, dirs_at_call, files_at_call, returns>>

ReturnSummary ==
    /\ pc = "for"
    /\ idx = Len(streams)
    /\ summary' = Some(MakeSummary)
    /\ pc' = "returned"
    /\ UNCHANGED <<config, streams, idx, successful, failed, failed_streams,
                   jpc, args, response, m3u8_url, m3u8_response, processed_content,
                   result, dirs, files, exc, dirs_at_call, files_at_call, returns, log>>

-----------------------------------------------------------------------------
(* Specifications *)

\* python galata_ai.py in an empty working directory
Init ==
    /\ pc = "load"
    /\ config \in Configs
    /\ streams = <<>>
    /\ idx = 0
    /\ successful = 0
    /\ failed = 0
    /\ failed_streams = <<>>
    /\ summary = None
    /\ jpc = "idle"
    /\ args = None
    /\ response = None
    /\ m3u8_url = None
    /\ m3u8_response = None
    /\ processed_content = None
    /\ result = None
    /\ dirs = {}
    /\ files = <<>>
    /\ exc = None
    /\ dirs_at_call = {}
    /\ files_at_call = <<>>
    /\ returns = <<>>
    /\ log = <<>>

Next ==
    \/ LoadConfig
    \/ NextStream
    \/ Makedirs
    \/ EmbedGet
    \/ SearchUrl
    \/ M3u8Get(ManifestSamples)
    \/ Process
    \/ WriteFile
    \/ Tally
    \/ Sleep
    \/ ReturnSummary

Spec == Init /\ [][Next]_vars

\* one direct call of download_stream_manifest, in a directory that may already
\* hold the folder and an earlier download
OldContent == <<"#", "\n", "s">>

InitJob ==
    /\ pc = "direct"
    /\ config = [kind |-> "missing"]
    /\ streams = <<>>
    /\ idx = 0
    /\ successful = 0
    /\ failed = 0
    /\ failed_streams = <<>>
    /\ summary = None
    /\ jpc = "makedirs"
    /\ args = [stream_id |-> Stream1.stream_id,
               referer |-> Stream1.referer,
               country |-> Stream1.country,
               subdivision |-> Stream1.subdivision,
               folder_name |-> Stream1.folder_name]
    /\ \/ dirs = {} /\ files = <<>>
       \/ dirs = Prefixes(folder_path, Len(folder_path)) /\ files = <<>>
       \/ /\ dirs = Prefixes(folder_path, Len(folder_path))
          /\ files = WriteTo(<<>>, output_path(folder_path, args.stream_id), OldContent)
    /\ response = None
    /\ m3u8_url = None
    /\ m3u8_response = None
    /\ processed_content = None
    /\ result = None
    /\ exc = None
    /\ dirs_at_call = dirs
    /\ files_at_call = files
    /\ returns = <<>>
    /\ log = <<>>

NextJob ==
    \/ Makedirs
    \/ EmbedGet
    \/ SearchUrl
    \/ M3u8Get(Texts(MaxTextLen))
    \/ Process
    \/ WriteFile

SpecJob == InitJob /\ [][NextJob]_vars

-----------------------------------------------------------------------------
(* Properties *)

Count(kind) == Len(SelectSeq(log, LAMBDA e : e[1] = kind))

\* the events of process_all_streams itself
BatchLog == SelectSeq(log, LAMBDA e : e[1] \in {"start", "ok", "fail", "sleep"})

Ended(events) == Len(SelectSeq(events, LAMBDA e : e[1] \in {"ok", "fail"}))

Elements(s) == {s[i] : i \in 1..Len(s)}

\* the config file holds a list of entries that each have the six fields
UsableConfig ==
    /\ config.kind = "list"
    /\ \A i \in 1..Len(config.value) : Fields \subseteq DOMAIN config.value[i]

SummaryReturned == pc = "returned" /\ summary # None

\* C1: for a list of job descriptors and any outcomes of the jobs,
\* process_all_streams calls download_stream_manifest for every entry exactly
\* once, one call at a time and in input order; no outcome of a job stops the
\* loop before the last entry.
C1_EveryJobAttemptedInOrder ==
    UsableConfig =>
        /\ pc # "raised"
        /\ LET starts == SelectSeq(log, LAMBDA e : e[1] = "start")
           IN  /\ Len(starts) = idx
               /\ \A k \in 1..Len(starts) : starts[k][2] = k
        /\ LET B == BatchLog
           IN  \A p \in 1..Len(B) :
                  B[p][1] = "start" => Ended(SubSeq(B, 1, p - 1)) = B[p][2] - 1
        /\ (pc = "returned" =>
               /\ idx = Len(config.value)
               /\ Len(returns) = Len(config.value))

C1_Witness ==
    /\ SummaryReturned
    /\ Len(streams) = 3
    /\ returns[1].message[1] = "Error: "
    /\ ~returns[2].success
    /\ returns[3].success

\* C2: an error raised while a job runs is caught in download_stream_manifest
\* and returned as success=false with a message that carries the error's
\* description; the batch loop records it as one entry of failed_streams.
C2_ErrorsCaughtAndRecorded ==
    /\ (jpc = "returned" /\ exc # None) =>
          /\ result.success = FALSE
          /\ result.message = <<"Error: ", exc[1]>>
          /\ result.file_path = None
          /\ pc = "call"
    /\ (pc \in {"sleep", "for", "returned"} /\ idx >= 1 /\ exc # None) =>
          /\ failed_streams # <<>>
          /\ failed_streams[Len(failed_streams)] =
                 [name |-> streams[idx].name,
                  location |-> <<streams[idx].country, "/", streams[idx].subdivision,
                                 "/", streams[idx].folder_name>>,
                  stream_id |-> streams[idx].stream_id,
                  error |-> <<"Error: ", exc[1]>>]
    /\ Len(failed_streams) = Count("fail")
    /\ Count("fail") = Len(SelectSeq(SubSeq(returns, 1, Ended(log)), LAMBDA r : ~r.success))

C2_Witness ==
    /\ pc = "sleep"
    /\ exc = Some("Read timed out")
    /\ Len(failed_streams) = 2

\* C3: one run issues at most one embed page GET and at most one M3U8 GET, in
\* that order; a non-200 embed response or a page without M3U8 URL returns
\* success=false and no M3U8 GET is issued; a non-200 M3U8 response returns
\* success=false; the status messages contain the code; no file is written.
C3_FailureShortCircuits ==
    /\ Count("embed_get") <= 1
    /\ Count("m3u8_get") <= 1
    /\ \A p, q \in 1..Len(log) :
          /\ (log[p][1] = "makedirs" /\ log[q][1] = "embed_get" => p < q)
          /\ (log[p][1] = "embed_get" /\ log[q][1] = "m3u8_get" => p < q)
          /\ (log[p][1] = "m3u8_get" /\ log[q][1] \in {"write", "truncate"} => p < q)
    /\ (jpc = "returned" /\ response # None /\ response[1].status_code = 404) =>
          /\ ~result.success
          /\ "404" \in Elements(result.message)
          /\ Count("m3u8_get") = 0
          /\ files = files_at_call
    /\ (/\ jpc = "returned"
        /\ response # None
        /\ response[1].status_code = 200
        /\ response[1].text = <<None, None, None, None>>) =>
          /\ ~result.success
          /\ result.message # <<>>
          /\ Count("m3u8_get") = 0
          /\ files = files_at_call
    /\ (jpc = "returned" /\ m3u8_response # None /\ m3u8_response[1].status_code = 404) =>
          /\ ~result.success
          /\ "404" \in Elements(result.message)
          /\ files = files_at_call

C3_Witness ==
    /\ jpc = "returned"
    /\ m3u8_response # None
    /\ m3u8_response[1].status_code = 404
    /\ files_at_call # <<>>

\* the job got past makedirs and ended with a failure before the rewrite
FailedBeforeWrite ==
    /\ jpc = "returned"
    /\ ~result.success
    /\ Count("embed_get") = 1
    /\ processed_content = None

\* C4 as stated: a job that fails at the embed fetch, the locator or the M3U8
\* fetch leaves the filesystem unchanged, no directory created, no file written.
C4_Original ==
    FailedBeforeWrite => dirs = dirs_at_call /\ files = files_at_call

\* C4: a job that fails at the embed fetch, the locator or the M3U8 fetch
\* writes no file, but the folder country/subdivision/folder_name and its
\* parents exist by then: makedirs is the first step of every job.
C4_FolderCreatedFirst ==
    FailedBeforeWrite =>
        /\ files = files_at_call
        /\ dirs = dirs_at_call \cup
                  { <<args.country>>,
                    <<args.country, args.subdivision>>,
                    <<args.country, args.subdivision, args.folder_name>> }
        /\ log[1][1] = "makedirs"

C4_Witness ==
    /\ FailedBeforeWrite
    /\ dirs_at_call = {}
    /\ <<args.country, args.subdivision, args.folder_name>> \in dirs
    /\ files = <<>>

\* C5 as stated: when the config is no list of complete job descriptors, no
\* job is attempted.
C5_NoPartialBatch ==
    ~UsableConfig => Count("start") = 0

\* C6: a returned dict with success=true has a non-empty file_path and
\* m3u8_url; one with success=false has a non-empty message and file_path None.
C6_OutcomeShape ==
    jpc = "returned" =>
        IF result.success
        THEN /\ result.file_path # None
             /\ result.file_path[1].file # <<>>
             /\ "m3u8_url" \in DOMAIN result
             /\ result.m3u8_url # <<>>
        ELSE /\ result.message # <<>>
             /\ result.file_path = None

C6_Witness ==
    /\ jpc = "returned"
    /\ result.success
    /\ result.m3u8_url = OtherUrl

FailedIndexes == SelectSeq([i \in 1..Len(returns) |-> i], LAMBDA i : ~returns[i].success)

\* C7: the summary is exact: total is the number of input jobs, successful +
\* failed = total, failed = len(failed_streams), and failed_streams holds one
\* entry (name, location, stream_id, error) per failed job, in input order;
\* during the loop successful + failed is the number of jobs finished.
C7_SummaryExact ==
    /\ (pc \in {"for", "sleep"} \/ SummaryReturned) =>
          /\ successful + failed = idx
          /\ idx = Len(returns)
    /\ (pc = "call" => successful + failed = idx - 1)
    /\ SummaryReturned =>
          LET s == summary[1]
          IN  /\ s.total = Len(config.value)
              /\ s.successful + s.failed = s.total
              /\ s.failed = Len(s.failed_streams)
              /\ s.failed = Len(FailedIndexes)
              /\ \A k \in 1..Len(s.failed_streams) :
                    LET i == FailedIndexes[k]
                    IN  s.failed_streams[k] =
                            [name |-> config.value[i].name,
                             location |-> <<config.value[i].country, "/",
                                            config.value[i].subdivision, "/",
                                            config.value[i].folder_name>>,
                             stream_id |-> config.value[i].stream_id,
                             error |-> returns[i].message]

C7_Witness ==
    /\ SummaryReturned
    /\ summary[1].total = 3
    /\ summary[1].successful = 2
    /\ summary[1].failed = 1
    /\ returns[2].message = <<"M3U8 URL not found in embed page">>
    /\ summary[1].failed_streams[1].name = config.value[2].name

\* C8: the loop sleeps after every job but the last, whatever the job's
\* outcome: the next job starts right after the sleep that follows its
\* predecessor, no sleep follows the last job, and a batch of n jobs has
\* max(0, n-1) sleeps.
C8_DelayBetweenJobs ==
    /\ LET B == BatchLog
       IN  \A p \in 1..Len(B) :
              /\ (B[p][1] = "start" /\ B[p][2] > 1) =>
                    /\ p > 2
                    /\ B[p - 1] = <<"sleep", B[p][2] - 1>>
                    /\ B[p - 2][1] \in {"ok", "fail"}
                    /\ B[p - 2][2] = B[p][2] - 1
              /\ (B[p][1] = "sleep") =>
                    /\ B[p][2] < Len(streams)
                    /\ p > 1
                    /\ B[p - 1][1] \in {"ok", "fail"}
                    /\ B[p - 1][2] = B[p][2]
              /\ (B[p][1] \in {"ok", "fail"} /\ p < Len(B)) =>
                    B[p + 1] = <<"sleep", B[p][2]>>
    /\ (pc = "sleep" => idx < Len(streams))
    /\ SummaryReturned =>
          Count("sleep") = IF Len(streams) = 0 THEN 0 ELSE Len(streams) - 1

C8_Witness ==
    /\ SummaryReturned
    /\ Count("sleep") = 2
    /\ ~returns[1].success
    /\ returns[2].success

InLines == split(m3u8_response[1].text, "\n")
OutLines == split(processed_content[1], "\n")

\* C9 as stated: the rewrite keeps the number of lines, and every blank line
\* and every line beginning with '#' comes out with exactly its content,
\* leading and trailing whitespace included.
C9_Original ==
    jpc = "write" =>
        LET in == InLines
            out == OutLines
        IN  /\ Len(out) = Len(in)
            /\ \A i \in 1..Len(in) :
                  (strip(in[i]) = <<>> \/ in[i][1] = "#") => out[i] = in[i]

\* C9: the rewrite keeps the number and order of lines, and every blank line
\* and every comment line (first non-blank character '#') comes out as its
\* content without the leading and trailing whitespace.
C9_BlankAndCommentStripped ==
    jpc = "write" =>
        LET in == InLines
            out == OutLines
        IN  /\ Len(out) = Len(in)
            /\ \A i \in 1..Len(in) :
                  LET l == strip(in[i])
                  IN  (l = <<>> \/ l[1] = "#") => out[i] = l

C9_Witness ==
    /\ jpc = "write"
    /\ m3u8_response[1].text = <<"#", "s", " ", "\n", " ">>
    /\ processed_content[1] = <<"#", "s", "\n">>

HasScheme(url) == urlsplit(url, <<>>).scheme # <<>>

FetchedAndWritten ==
    /\ jpc = "returned"
    /\ response # None
    /\ response[1].status_code = 200
    /\ m3u8_response # None
    /\ m3u8_response[1].status_code = 200
    /\ exc = None

\* C10 as stated: the file of a successful job is
\* country/subdivision/folder_name/stream_id.manifest.
C10_Original ==
    FetchedAndWritten =>
        /\ result.success
        /\ [dir |-> <<args.country, args.subdivision, args.folder_name>>,
            file |-> <<args.stream_id, ".manifest">>] \in DOMAIN files

\* C10: with both fetches answered 200 and the write accepted, the job returns
\* success=true and writes exactly one file,
\* country/subdivision/folder_name/stream_id.m3u8, replacing what was there;
\* in it every non-blank, non-comment line is an absolute URL: a line that
\* starts with http:// or https:// is the stripped line, any other is urljoin
\* of the M3U8 URL and the stripped line (s against https://host/path/index.m3u8
\* gives https://host/path/s, /s gives https://host/s: C10_Witness).
C10_FileWrittenWithAbsoluteUrls ==
    FetchedAndWritten =>
          LET path == [dir |-> <<args.country, args.subdivision, args.folder_name>>,
                       file |-> <<args.stream_id, ".m3u8">>]
          IN  /\ result.success
              /\ result.file_path = Some(path)
              /\ DOMAIN files = DOMAIN files_at_call \cup {path}
              /\ \A p \in DOMAIN files_at_call \ {path} : files[p] = files_at_call[p]
              /\ LET out == split(files[path], "\n")
                     in == InLines
                 IN  /\ Len(out) = Len(in)
                     /\ \A i \in 1..Len(in) :
                           LET l == strip(in[i])
                           IN  (l # <<>> /\ l[1] # "#") =>
                                   /\ HasScheme(out[i])
                                   /\ out[i] =
                                        IF \/ Take(l, 4) = <<"h", ":", "/", "/">>
                                           \/ Take(l, 5) = <<"h", "s", ":", "/", "/">>
                                        THEN l
                                        ELSE urljoin(m3u8_url[1], l)

C10_Witness ==
    /\ FetchedAndWritten
    /\ files_at_call # <<>>
    /\ m3u8_url = Some(AbsoluteUrl)
    /\ m3u8_response[1].text = <<"s", "\n", "/", "s">>
    /\ files[[dir |-> <<args.country, args.subdivision, args.folder_name>>,
              file |-> <<args.stream_id, ".m3u8">>]] =
           <<"h", "s", ":", "/", "/", "host", "/", "path", "/", "s", "\n",
             "h", "s", ":", "/", "/", "host", "/", "s">>

====
